---- MODULE Spec2Model ----
(***************************************************************************)
(* A model of github_scrapper.py: GitHubScraper.make_request (the retry    *)
(* loop behind the ratelimit decorators), the two enumerations built on    *)
(* it (fetch_users, fetch_repositories), the batch in main, and the pure   *)
(* parts: clean_company_name, the records built by fetch_user_details and  *)
(* fetch_repositories, and analyze_data.                                   *)
(*                                                                         *)
(* Time is a discrete clock `now` in seconds.  time.sleep(d) advances it   *)
(* by d.  One HTTP GET is one step whose outcome the environment chooses:  *)
(* a response (status, quota headers, body), a Timeout, or another         *)
(* RequestException raised by requests.get.  The body of a success         *)
(* response is taken to be well-formed JSON of the shape the endpoint      *)
(* serves (response.json() does not raise).                                *)
(*                                                                         *)
(* The decorators sleep_and_retry and limits come from the ratelimit       *)
(* package (line 8); the model gives them the behaviour of that package:   *)
(* a counter of calls per fixed period that starts at last_reset.          *)
(*                                                                         *)
(* Records keep the fields that decide control flow: a search item and a   *)
(* user record are identified by their login (user k has login k, the      *)
(* empty string is EmptyLogin), a repository record by its owner and       *)
(* number.                                                                 *)
(***************************************************************************)
EXTENDS Integers, Sequences, FiniteSets, TLC

(***************************************************************************)
(* Program constants.                                                      *)
(***************************************************************************)
max_retries == 3
InitialWait == 1
BackoffFactor == 2
AcceptedSleep == 2
ResetBuffer == 1
calls == 30
period == 60
per_page == 100
SearchCap == 1000
MaxRepoPages == 5
Inf == 1000000

(***************************************************************************)
(* Bounds of the model.                                                    *)
(***************************************************************************)
MaxCalls == 2
MaxReset == 3
MaxRemaining == 7
MaxLimiterCalls == 32
MaxRetryCalls == 11
ElapseStep == 30
MaxTime == 60
MaxTotal == 1500
MaxEnumPages == 2
MaxUsers == 2
MaxRepos == 1
MaxLen == 4
MaxMissing == 2
MaxStars == 1
MaxAnalysisRepos == 3
MaxAnalysisUsers == 1

Absent == -1
\* The empty string as a login.
EmptyLogin == 0

Max(a, b) == IF a >= b THEN a ELSE b
Min(a, b) == IF a <= b THEN a ELSE b

(***************************************************************************)
(* Values exchanged with the server.                                       *)
(***************************************************************************)
\* A parsed JSON body.  type "dict" is a JSON object, "list" a JSON array.
\* items/total_count are the keys of a search result; login is the key of a
\* user object (Absent when the key is missing).
EmptyDict == [type |-> "dict", items |-> <<>>, total_count |-> Absent, login |-> Absent]

\* The arguments of a make_request call: the endpoint of the url, the page
\* parameter (0 when the call has none) and the user name in the url (0 when
\* it has none).
Request(endpoint, p, username) == [endpoint |-> endpoint, page |-> p, username |-> username]

NoRequest == Request("none", 0, 0)

\* The quota headers of a response: X-RateLimit-Remaining, X-RateLimit-Reset.
HeaderOptions ==
    { [remaining |-> Absent, reset |-> Absent],
      [remaining |-> 0, reset |-> MaxReset],
      [remaining |-> MaxRemaining, reset |-> 0] }

\* d.get(key, default) of a dict d (response.headers, a JSON object), given the
\* value v stored under the key, Absent when there is none.
DictGet(v, default) == IF v = Absent THEN default ELSE v

\* Statuses for which raise_for_status raises HTTPError (4xx and 5xx); 403 is
\* here the 403 whose text lacks 'rate limit exceeded'.
ErrorStatuses == {403, 404, 422}

VARIABLES
    now,                    \* time.time()
    last_reset, num_calls,  \* state of the limits(calls=30, period=60) decorator
    rate_limit_remaining, rate_limit_reset,
    last_headers,           \* history: the quota headers of the latest response
    mr_pc,                  \* make_request: "idle", "loop", "returned", "raised"
    attempt, wait_time,     \* locals of make_request
    retval,                 \* the value make_request returned
    exc,                    \* the exception make_request raised
    ret_from_response,      \* history: retval is response.json() of a received response
    sent,                   \* history: requests.get calls of the current make_request call
    sleeps,                 \* history: time.sleep durations of the current call, in order
    outcomes,               \* history: outcome of each requests.get of the current call
    limiter_slept,          \* history: sleep of sleep_and_retry before the current call
    window_gets,            \* history: requests.get calls sent by the earlier calls of
                            \*   the limiter period that began at last_reset
    admissions,             \* history: the times at which the limiter admitted a call
    ncalls,                 \* make_request calls started so far
    req,                    \* the arguments of the current make_request call
    server_total,           \* the server: number of users that match the search
    fu_pc,                  \* fetch_users: "idle", "top", "waiting", "done", "raised"
    users, page, total_count,   \* locals of fetch_users
    requested,              \* history: page indices requested by the enumeration
    server_repos,           \* the server: server_repos[k] repositories belong to user k
    fr_pc,                  \* fetch_repositories: "idle", "top", "waiting", "done", "raised"
    repos, repo_page, username, \* locals of fetch_repositories (repo_page is its `page`)
    main_pc,                \* main: "none" (not running), "start", "fetch_users", "details",
                            \*   "details_wait", "repos", "repos_wait", "saved", "failed"
    idx,                    \* position of the for loop of main that is running
    users_data, repos_data, \* locals of main
    saved,                  \* the arguments save_data was called with
    detail_calls,           \* history: the user names fetch_user_details was called with
    repo_calls,             \* history: the user names fetch_repositories was called with
    ok_users,               \* history: the user records built from a received response
    ok_repos,               \* history: the records of the repository enumerations in
                            \*   which no page request failed
    canon_pc,               \* clean_company_name applied: "input", "cleaned", "recleaned"
    company,                \* the argument of clean_company_name
    cleaned,                \* clean_company_name(company)
    recleaned,              \* clean_company_name(cleaned)
    norm_pc,                \* normalization of a record: "none", "input", "done"
    raw,                    \* the raw JSON object handed to the normalization
    normalized,             \* the record built from it, or the exception raised
    analysis_pc,            \* analyze_data: "none", "input", "done"
    analysis_users,         \* its argument users_data
    analysis_repos,         \* its argument repos_data
    analysis                \* the dict it returns

vars == <<now, last_reset, num_calls, rate_limit_remaining, rate_limit_reset, last_headers,
          mr_pc, attempt, wait_time, retval, exc, ret_from_response,
          sent, sleeps, outcomes, limiter_slept, window_gets, admissions, ncalls, req,
          server_total, fu_pc, users, page, total_count, requested,
          server_repos, fr_pc, repos, repo_page, username,
          main_pc, idx, users_data, repos_data, saved, detail_calls, repo_calls,
          ok_users, ok_repos, canon_pc, company, cleaned, recleaned,
          norm_pc, raw, normalized,
          analysis_pc, analysis_users, analysis_repos, analysis>>

limiter_vars == <<last_reset, num_calls, limiter_slept>>
quota_vars == <<rate_limit_remaining, rate_limit_reset, last_headers>>
mr_vars == <<mr_pc, attempt, wait_time, retval, exc, ret_from_response,
             sent, sleeps, outcomes, ncalls, req>>
fu_vars == <<fu_pc, users, page, total_count>>
fr_vars == <<fr_pc, repos, repo_page, username>>
server_vars == <<server_total, server_repos>>
canon_vars == <<canon_pc, company, cleaned, recleaned>>
\* normalization of one raw record (lines 142-154, 177-188)
norm_vars == <<norm_pc, raw, normalized>>
\* The arguments and results of the pure helpers.
analysis_vars == <<analysis_pc, analysis_users, analysis_repos, analysis>>
pure_vars == <<canon_vars, norm_vars, analysis_vars>>
main_vars == <<main_pc, idx, users_data, repos_data, saved, detail_calls, repo_calls,
               ok_users, ok_repos>>
\* What the body of make_request never touches.
outer_vars == <<limiter_vars, admissions, window_gets, ncalls, req, requested, fu_vars, fr_vars,
                server_vars, pure_vars, main_vars>>
\* What belongs to the callers of make_request.
caller_vars == <<requested, fu_vars, fr_vars, server_vars, pure_vars, main_vars>>

NoExc == [type |-> "none", status |-> 0]

\* clean_company_name is not being exercised.
NoCanon ==
    /\ canon_pc = "none"
    /\ company = [none |-> TRUE, text |-> <<>>]
    /\ cleaned = <<>>
    /\ recleaned = <<>>

\* save_data has not been called.
NotSaved == [called |-> FALSE, users |-> <<>>, repos |-> <<>>]

(***************************************************************************)
(* The server's search endpoint: server_total users match, user k has      *)
(* login k, and page p of the result holds the users (p-1)*per_page + 1    *)
(* .. p*per_page that exist; every page reports total_count.               *)
(***************************************************************************)
PageLength(total, p) == Max(0, Min(per_page, total - (p - 1) * per_page))

SearchPage(total, p) ==
    [type |-> "dict",
     items |-> [i \in 1..PageLength(total, p) |-> (p - 1) * per_page + i],
     total_count |-> total,
     login |-> Absent]

\* The server's repository list of user u: repository j of user u is the
\* pair <<u, j>>; a user the server does not know has none.
RepoCount(u) == IF u \in DOMAIN server_repos THEN server_repos[u] ELSE 0

ReposPage(u, p) ==
    [type |-> "list",
     items |-> [i \in 1..PageLength(RepoCount(u), p) |-> <<u, (p - 1) * per_page + i>>],
     total_count |-> Absent,
     login |-> Absent]

\* The server's user object of user u.
UserBody(u) == [type |-> "dict", items |-> <<>>, total_count |-> Absent, login |-> u]

\* The bodies a success response to request r can carry.
ServerBodies(r) ==
    CASE r.endpoint = "search" -> {SearchPage(server_total, r.page)}
      [] r.endpoint = "repos" -> {ReposPage(r.username, r.page)}
      [] r.endpoint = "user" -> {UserBody(r.username)}
      [] OTHER -> {EmptyDict, UserBody(1)}

(***************************************************************************)
(* clean_company_name.  A string is a sequence of one-character strings;   *)
(* None is the record NoneStr (a str argument is the record Str(text)).    *)
(***************************************************************************)
NoneStr == [none |-> TRUE, text |-> <<>>]
Str(text) == [none |-> FALSE, text |-> text]

LowerCase == <<"a", "b", "c", "d", "e", "f", "g", "h", "i", "j", "k", "l", "m",
               "n", "o", "p", "q", "r", "s", "t", "u", "v", "w", "x", "y", "z">>
UpperCase == <<"A", "B", "C", "D", "E", "F", "G", "H", "I", "J", "K", "L", "M",
               "N", "O", "P", "Q", "R", "S", "T", "U", "V", "W", "X", "Y", "Z">>

\* str.upper
UpperChar(c) ==
    IF \E i \in 1..Len(LowerCase) : LowerCase[i] = c
    THEN UpperCase[CHOOSE i \in 1..Len(LowerCase) : LowerCase[i] = c]
    ELSE c

Upper(t) == [i \in 1..Len(t) |-> UpperChar(t[i])]

\* str.strip
RECURSIVE LStrip(_)
LStrip(t) == IF t # <<>> /\ Head(t) = " " THEN LStrip(Tail(t)) ELSE t

RECURSIVE RStrip(_)
RStrip(t) ==
    IF t # <<>> /\ t[Len(t)] = " " THEN RStrip(SubSeq(t, 1, Len(t) - 1)) ELSE t

Strip(t) == RStrip(LStrip(t))

\* str.startswith, str.endswith
StartsWith(t, pre) == Len(pre) <= Len(t) /\ SubSeq(t, 1, Len(pre)) = pre
EndsWith(t, suf) == Len(suf) <= Len(t) /\ SubSeq(t, Len(t) - Len(suf) + 1, Len(t)) = suf

\* line 90
prefixes_to_remove ==
    << <<"@">>,
       <<"H", "T", "T", "P", ":", "/", "/">>,
       <<"H", "T", "T", "P", "S", ":", "/", "/">>,
       <<"W", "W", "W", ".">> >>

\* line 95
domains ==
    << <<".", "C", "O", "M">>,
       <<".", "O", "R", "G">>,
       <<".", "N", "E", "T">>,
       <<".", "C", "O">>,
       <<".", "I", "O">> >>

\* lines 91-93: the loop over prefixes_to_remove, from the k-th prefix on
RECURSIVE RemovePrefixes(_, _)
RemovePrefixes(t, k) ==
    IF k > Len(prefixes_to_remove) THEN t
    ELSE IF StartsWith(t, prefixes_to_remove[k])
         THEN RemovePrefixes(SubSeq(t, Len(prefixes_to_remove[k]) + 1, Len(t)), k + 1)
         ELSE RemovePrefixes(t, k + 1)

\* lines 96-98: the loop over domains, from the k-th domain on
RECURSIVE RemoveDomains(_, _)
RemoveDomains(t, k) ==
    IF k > Len(domains) THEN t
    ELSE IF EndsWith(t, domains[k])
         THEN RemoveDomains(SubSeq(t, 1, Len(t) - Len(domains[k])), k + 1)
         ELSE RemoveDomains(t, k + 1)

\* lines 84-99; the result is always a str, given as its text
clean_company_name(c) ==
    IF c.none \/ c.text = <<>>
    THEN <<>>
    ELSE Strip(RemoveDomains(RemovePrefixes(Upper(Strip(c.text)), 1), 1))

(***************************************************************************)
(* JSON values and the Python conversions applied to them.  A value is a   *)
(* record of its Python type (kind), its text when it is a str and its     *)
(* number when it is an int or a bool.  Missing stands for a key the JSON  *)
(* object does not have.                                                   *)
(***************************************************************************)
PyVal(kind, text, num) == [kind |-> kind, text |-> text, num |-> num]
Missing == PyVal("missing", <<>>, 0)
PyNone == PyVal("NoneType", <<>>, 0)
PyStr(text) == PyVal("str", text, 0)
PyInt(n) == PyVal("int", <<>>, n)
PyBool(b) == PyVal("bool", <<>>, IF b THEN 1 ELSE 0)
PyDict == PyVal("dict", <<>>, 0)
\* The exception a conversion raises, in place of its value.
PyRaise(e) == PyVal(e, <<>>, 0)

PyExceptions == {"TypeError"}

\* d.get(key, default), v the value of d[key] or Missing
PyGet(v, default) == IF v = Missing THEN default ELSE v

\* d.get(key), whose default is None
PyGetNone(v) == PyGet(v, PyNone)

\* int(v) for the values a JSON number field can hold; int(None) raises
\* TypeError.
PyIntOf(v) ==
    CASE v.kind = "int" -> v
      [] v.kind = "bool" -> PyInt(v.num)
      [] v.kind = "NoneType" -> PyRaise("TypeError")

\* the truth value of v
Truthy(v) ==
    CASE v.kind = "NoneType" -> FALSE
      [] v.kind = "bool" -> v.num = 1
      [] v.kind = "int" -> v.num # 0
      [] v.kind = "str" -> v.text # <<>>
      [] v.kind = "dict" -> TRUE

\* bool(v)
PyBoolOf(v) == PyBool(Truthy(v))

\* clean_company_name(v) of a JSON value that is a str or null
PyCleanCompany(v) ==
    PyStr(clean_company_name(IF v.kind = "NoneType" THEN NoneStr ELSE Str(v.text)))

(***************************************************************************)
(* The records built by fetch_user_details and fetch_repositories.  A raw  *)
(* record is a function from the keys of the JSON object to their values;  *)
(* the key "license.key" holds the value of 'key' inside the object under  *)
(* 'license'.                                                              *)
(***************************************************************************)
UserFields == {"login", "name", "company", "location", "email", "hireable", "bio",
               "public_repos", "followers", "following", "created_at"}

RawRepoFields == {"full_name", "created_at", "stargazers_count", "watchers_count",
                  "language", "has_projects", "has_wiki", "license", "license.key"}

RepoFields == {"login", "full_name", "created_at", "stargazers_count", "watchers_count",
               "language", "has_projects", "has_wiki", "license_name"}

\* The type each field of a normalized record is declared to hold.
DeclaredType(f) ==
    CASE f \in {"hireable", "has_projects", "has_wiki"} -> "bool"
      [] f \in {"public_repos", "followers", "following",
                "stargazers_count", "watchers_count"} -> "int"
      [] OTHER -> "str"

\* lines 142-154
NormalizeUser(user_data) ==
    [f \in UserFields |->
        CASE f = "company" -> PyCleanCompany(PyGetNone(user_data[f]))
          [] f = "hireable" -> PyBoolOf(PyGetNone(user_data[f]))
          [] f \in {"public_repos", "followers", "following"} ->
                PyIntOf(PyGet(user_data[f], PyInt(0)))
          [] OTHER -> PyGet(user_data[f], PyStr(<<>>))]

\* line 177: repo.get('license') or {}; TRUE when the result has 'key' in it
LicenseInfoHasKey(repo) ==
    /\ PyGetNone(repo["license"]).kind = "dict"
    /\ repo["license.key"] # Missing

\* lines 177-188
NormalizeRepo(u, repo) ==
    [f \in RepoFields |->
        CASE f = "login" -> u
          [] f \in {"stargazers_count", "watchers_count"} ->
                PyIntOf(PyGet(repo[f], PyInt(0)))
          [] f \in {"has_projects", "has_wiki"} ->
                PyBoolOf(PyGet(repo[f], PyBool(FALSE)))
          [] f = "license_name" ->
                IF LicenseInfoHasKey(repo) THEN repo["license.key"] ELSE PyStr(<<>>)
          [] OTHER -> PyGet(repo[f], PyStr(<<>>))]

\* The outcome of building a record: the dict, or the exception that building
\* one of its values raised.
Built(fields) ==
    IF \E f \in DOMAIN fields : fields[f].kind \in PyExceptions
    THEN [raised |-> TRUE, fields |-> <<>>]
    ELSE [raised |-> FALSE, fields |-> fields]

\* No record is being normalized.
NoNorm ==
    /\ norm_pc = "none"
    /\ raw = [of |-> "none", fields |-> <<>>]
    /\ normalized = [raised |-> FALSE, fields |-> <<>>]

(***************************************************************************)
(* analyze_data.  A user record is given by its field hireable, a          *)
(* repository record by its fields login, full_name, stargazers_count and  *)
(* language (a str or None); logins and full names are numbers, 0 the      *)
(* empty string.  The average is the fraction num / den.                   *)
(***************************************************************************)
Unknown == <<"U", "n", "k", "n", "o", "w", "n">>
EmptyName == 0

RECURSIVE SumOver(_, _)
SumOver(f, S) ==
    IF S = {} THEN 0
    ELSE LET x == CHOOSE x \in S : TRUE IN f[x] + SumOver(f, S \ {x})

\* A bucket rule that keeps the language as it is.
LanguageBucket_NoSentinel(repo) == repo.language.text

\* line 212: repo['language'] or 'Unknown'
LanguageBucket(repo) ==
    IF Truthy(repo.language) THEN repo.language.text ELSE Unknown

\* lines 211-213
Languages(repos_arg) ==
    [b \in {LanguageBucket(repos_arg[i]) : i \in 1..Len(repos_arg)} |->
        Cardinality({i \in 1..Len(repos_arg) : LanguageBucket(repos_arg[i]) = b})]

\* lines 205, 216-217
AvgStars(repos_arg) ==
    IF repos_arg # <<>>
    THEN [num |-> SumOver([i \in 1..Len(repos_arg) |-> repos_arg[i].stargazers_count],
                          1..Len(repos_arg)),
          den |-> Len(repos_arg)]
    ELSE [num |-> 0, den |-> 1]

\* lines 221-226: the loop from record k on, with the running most_stars and
\* analysis['most_starred_repo']
RECURSIVE MostStarred(_, _, _, _)
MostStarred(repos_arg, k, most_stars, name) ==
    IF k > Len(repos_arg) THEN name
    ELSE IF repos_arg[k].stargazers_count > most_stars
         THEN MostStarred(repos_arg, k + 1, repos_arg[k].stargazers_count,
                          repos_arg[k].full_name)
         ELSE MostStarred(repos_arg, k + 1, most_stars, name)

\* line 223: user_repo_counts[u]
UserRepoCount(repos_arg, u) ==
    Cardinality({i \in 1..Len(repos_arg) : repos_arg[i].login = u})

\* lines 228-229: max over the items of user_repo_counts, a dict that keeps
\* its keys in the order of their first insertion; max returns the first
\* item that has the largest count
MostActiveUser(repos_arg) ==
    IF repos_arg = <<>> THEN EmptyLogin
    ELSE LET first(u) == CHOOSE i \in 1..Len(repos_arg) :
                            /\ repos_arg[i].login = u
                            /\ \A j \in 1..(i - 1) : repos_arg[j].login # u
             logins == {repos_arg[i].login : i \in 1..Len(repos_arg)}
             best == CHOOSE u \in logins :
                        \A v \in logins :
                            \/ UserRepoCount(repos_arg, u) > UserRepoCount(repos_arg, v)
                            \/ /\ UserRepoCount(repos_arg, u) = UserRepoCount(repos_arg, v)
                               /\ first(u) <= first(v)
         IN best

\* lines 200-231
analyze_data(users_arg, repos_arg) ==
    [total_users |-> Len(users_arg),
     total_repos |-> Len(repos_arg),
     hireable_users |-> Cardinality({i \in 1..Len(users_arg) : Truthy(users_arg[i].hireable)}),
     languages |-> Languages(repos_arg),
     avg_stars_per_repo |-> AvgStars(repos_arg),
     most_active_user |-> MostActiveUser(repos_arg),
     most_starred_repo |-> MostStarred(repos_arg, 1, 0, EmptyName)]

\* analyze_data is not being exercised.
NoAnalysis ==
    /\ analysis_pc = "none"
    /\ analysis_users = <<>>
    /\ analysis_repos = <<>>
    /\ analysis = analyze_data(<<>>, <<>>)

(***************************************************************************)
(* The ratelimit decorators around make_request.                           *)
(*   limits: if the period since last_reset has elapsed, reset the         *)
(*   counter; count the call; if the count exceeds `calls`, raise          *)
(*   RateLimitException(period_remaining).                                 *)
(*   sleep_and_retry: on RateLimitException sleep period_remaining and     *)
(*   call again.                                                           *)
(* LimiterSleep is the time sleep_and_retry sleeps before the call is      *)
(* admitted (0 when it is admitted at once).                               *)
(***************************************************************************)
PeriodRemaining == period - (now - last_reset)

\* A limiter that lets one call too many through in each period.
LimiterRejects_OffByOne == PeriodRemaining > 0 /\ num_calls > calls

LimiterRejects == PeriodRemaining > 0 /\ num_calls + 1 > calls

LimiterSleep == IF LimiterRejects THEN PeriodRemaining ELSE 0

LimiterAdmit ==
    /\ limiter_slept' = LimiterSleep
    /\ IF PeriodRemaining <= 0 \/ LimiterRejects
       THEN /\ last_reset' = now + LimiterSleep
            /\ num_calls' = 1
       ELSE /\ last_reset' = last_reset
            /\ num_calls' = num_calls + 1

(***************************************************************************)
(* update_rate_limit_info                                                  *)
(***************************************************************************)
update_rate_limit_info(h) ==
    /\ rate_limit_remaining' = DictGet(h.remaining, 0)
    /\ rate_limit_reset' = DictGet(h.reset, 0)
    /\ last_headers' = h

(***************************************************************************)
(* make_request                                                            *)
(***************************************************************************)
\* Entry of make_request once the limiter admits the call.
EnterMakeRequest(r) ==
    /\ LimiterAdmit
    /\ req' = r
    /\ now' = now + LimiterSleep
    /\ mr_pc' = "loop"
    /\ attempt' = 0
    /\ wait_time' = InitialWait
    /\ retval' = EmptyDict
    /\ exc' = NoExc
    /\ ret_from_response' = FALSE
    /\ sent' = 0
    /\ sleeps' = <<>>
    /\ outcomes' = <<>>
    /\ ncalls' = ncalls + 1

\* time.sleep(d) inside make_request
Sleep(d) ==
    /\ now' = now + d
    /\ sleeps' = Append(sleeps, d)

\* One requests.get is sent and its outcome observed.
Get(kind) ==
    /\ mr_pc = "loop"
    /\ sent' = sent + 1
    /\ outcomes' = Append(outcomes, kind)

\* A for loop that runs one iteration more than range(max_retries).
NextIteration_ExtraAttempt ==
    /\ attempt' = attempt + 1
    /\ exc' = exc
    /\ IF attempt + 1 <= max_retries
       THEN /\ mr_pc' = "loop"
            /\ UNCHANGED <<retval, ret_from_response>>
       ELSE /\ mr_pc' = "returned"
            /\ retval' = EmptyDict
            /\ ret_from_response' = FALSE

\* The for loop moves to its next iteration; when range(max_retries) is used
\* up the loop ends and line 82 returns {}.  (attempt counts the iterations
\* done; it is the loop index of the iteration that runs next.)
NextIteration ==
    /\ attempt' = attempt + 1
    /\ exc' = exc
    /\ IF attempt + 1 < max_retries
       THEN /\ mr_pc' = "loop"
            /\ UNCHANGED <<retval, ret_from_response>>
       ELSE /\ mr_pc' = "returned"
            /\ retval' = EmptyDict
            /\ ret_from_response' = FALSE

\* except RequestException: raise on the last attempt, else back off.
HandleRequestException(e) ==
    IF attempt = max_retries - 1
    THEN /\ mr_pc' = "raised"
         /\ exc' = e
         /\ UNCHANGED <<now, sleeps, wait_time, attempt, retval, ret_from_response>>
    ELSE /\ Sleep(wait_time)
         /\ wait_time' = wait_time * BackoffFactor
         /\ attempt' = attempt + 1
         /\ mr_pc' = "loop"
         /\ UNCHANGED <<exc, retval, ret_from_response>>

\* A response with a status that is neither 403-rate-limited, 202 nor an
\* error status: response.json() is returned.
RespSuccess(h, body) ==
    /\ Get("ok")
    /\ update_rate_limit_info(h)
    /\ mr_pc' = "returned"
    /\ retval' = body
    /\ ret_from_response' = TRUE
    /\ UNCHANGED <<now, sleeps, attempt, wait_time, exc, outer_vars>>

\* 403 whose text contains 'rate limit exceeded'.
RespRateLimited(h) ==
    /\ Get("quota")
    /\ update_rate_limit_info(h)
    /\ Sleep(Max(rate_limit_reset' - now, 0) + ResetBuffer)
    /\ NextIteration
    /\ UNCHANGED <<wait_time, outer_vars>>

\* A 202 handled as a retry that does not use up an attempt.
RespAccepted_FreeRetry(h) ==
    /\ Get("accepted")
    /\ update_rate_limit_info(h)
    /\ Sleep(AcceptedSleep)
    /\ mr_pc' = "loop"
    /\ UNCHANGED <<attempt, wait_time, retval, exc, ret_from_response, outer_vars>>

\* 202
RespAccepted(h) ==
    /\ Get("accepted")
    /\ update_rate_limit_info(h)
    /\ Sleep(AcceptedSleep)
    /\ NextIteration
    /\ UNCHANGED <<wait_time, outer_vars>>

\* Any other 4xx/5xx: raise_for_status raises HTTPError inside the try block,
\* and HTTPError is a RequestException.
RespHttpError(h, status) ==
    /\ Get("httperror")
    /\ update_rate_limit_info(h)
    /\ HandleRequestException([type |-> "HTTPError", status |-> status])
    /\ UNCHANGED outer_vars

\* requests.get raises Timeout.
GetTimeout ==
    /\ Get("timeout")
    /\ Sleep(wait_time)
    /\ wait_time' = wait_time * BackoffFactor
    /\ NextIteration
    /\ UNCHANGED <<quota_vars, outer_vars>>

\* requests.get raises another RequestException (e.g. ConnectionError).
GetRequestException ==
    /\ Get("connerror")
    /\ HandleRequestException([type |-> "ConnectionError", status |-> 0])
    /\ UNCHANGED <<quota_vars, outer_vars>>

(***************************************************************************)
(* Spec: a caller that calls make_request directly, against a server that  *)
(* may answer each GET in any way.                                         *)
(***************************************************************************)
InitScraper ==
    /\ now = 0
    /\ last_reset = 0
    /\ num_calls = 0
    /\ rate_limit_remaining = Inf
    /\ rate_limit_reset = 0
    /\ last_headers = [remaining |-> Absent, reset |-> Absent]
    /\ mr_pc = "idle"
    /\ attempt = 0
    /\ wait_time = InitialWait
    /\ retval = EmptyDict
    /\ exc = NoExc
    /\ ret_from_response = FALSE
    /\ sent = 0
    /\ sleeps = <<>>
    /\ outcomes = <<>>
    /\ limiter_slept = 0
    /\ window_gets = 0
    /\ admissions = <<>>
    /\ ncalls = 0
    /\ req = NoRequest
    /\ fu_pc = "idle"
    /\ users = <<>>
    /\ page = 1
    /\ total_count = 0
    /\ requested = <<>>
    /\ fr_pc = "idle"
    /\ repos = <<>>
    /\ repo_page = 1
    /\ username = 0
    /\ idx = 1
    /\ users_data = <<>>
    /\ repos_data = <<>>
    /\ saved = NotSaved
    /\ detail_calls = <<>>
    /\ repo_calls = <<>>
    /\ ok_users = <<>>
    /\ ok_repos = <<>>

Init ==
    /\ InitScraper
    /\ NoCanon
    /\ NoNorm
    /\ NoAnalysis
    /\ main_pc = "none"
    /\ server_total = 0
    /\ server_repos = <<>>

\* The caller calls make_request (again, once the previous call has ended).
Call ==
    /\ mr_pc \in {"idle", "returned", "raised"}
    /\ ncalls < MaxCalls
    /\ EnterMakeRequest(Request("direct", 0, 0))
    /\ UNCHANGED <<quota_vars, admissions, window_gets, caller_vars>>

Success == \E h \in HeaderOptions, b \in ServerBodies(req) :
    RespSuccess(h, b)

RateLimited == \E h \in HeaderOptions :
    RespRateLimited(h)

Accepted == \E h \in HeaderOptions :
    RespAccepted(h)

HttpError == \E h \in HeaderOptions, s \in ErrorStatuses :
    RespHttpError(h, s)

Timeout ==
    GetTimeout

TransportError ==
    GetRequestException

Next ==
    \/ Call
    \/ Success
    \/ RateLimited
    \/ Accepted
    \/ HttpError
    \/ Timeout
    \/ TransportError

Spec == Init /\ [][Next]_vars

\* One requests.get comes to an end: line 51 passes timeout=10, so the GET
\* either delivers a response or raises within bounded time.
GetEnds ==
    \/ Success
    \/ RateLimited
    \/ Accepted
    \/ HttpError
    \/ Timeout
    \/ TransportError

\* Spec with the progress of the GET in flight.
SpecProgress == Spec /\ WF_vars(GetEnds)

(***************************************************************************)
(* SpecLimiter: a caller that makes many calls of make_request, spaced in  *)
(* time as it likes, against a server that answers every GET at once with  *)
(* a success response.  Instants are those of the clock `now`; Elapse lets  *)
(* ElapseStep seconds pass between two calls.                              *)
(***************************************************************************)
LimitedCall ==
    /\ mr_pc \in {"idle", "returned", "raised"}
    /\ ncalls < MaxLimiterCalls
    /\ EnterMakeRequest(Request("direct", 0, 0))
    /\ admissions' = Append(admissions, now')
    /\ UNCHANGED <<quota_vars, window_gets, caller_vars>>

LimitedSuccess ==
    /\ RespSuccess([remaining |-> Absent, reset |-> Absent], EmptyDict)
   

Elapse ==
    /\ mr_pc \in {"idle", "returned", "raised"}
    /\ now + ElapseStep <= MaxTime
    /\ now' = now + ElapseStep
    /\ UNCHANGED <<limiter_vars, admissions, window_gets, quota_vars, mr_vars, caller_vars>>

NextLimiter ==
    \/ LimitedCall
    \/ LimitedSuccess
    \/ Elapse

SpecLimiter == Init /\ [][NextLimiter]_vars

\* The admissions in the time interval (lo, hi].
AdmittedIn(lo, hi) ==
    Cardinality({i \in 1..Len(admissions) : lo < admissions[i] /\ admissions[i] <= hi})

RetryingCall ==
    /\ mr_pc \in {"idle", "returned", "raised"}
    /\ ncalls < MaxRetryCalls
    /\ EnterMakeRequest(Request("direct", 0, 0))
    /\ window_gets' = IF last_reset' # last_reset THEN 0 ELSE window_gets + sent
    /\ UNCHANGED <<quota_vars, admissions, caller_vars>>

LimitedHttpError ==
    /\ RespHttpError([remaining |-> Absent, reset |-> Absent], 404)

NextLimiterRetries ==
    \/ RetryingCall
    \/ LimitedSuccess
    \/ LimitedHttpError

SpecLimiterRetries == Init /\ [][NextLimiterRetries]_vars

\* C17: counting every GET sent, the retries inside a make_request call
\* included, no limiter period of `period` seconds holds more than `calls`
\* GETs: the GETs of the calls the period admitted, the current call's among
\* them, are at most `calls`.
C17_LimiterBoundsRequests ==
    now < last_reset + period => window_gets + sent <= calls

(***************************************************************************)
(* fetch_users                                                             *)
(***************************************************************************)
\* lines 103-105
FetchUsersBegin ==
    /\ fu_pc = "idle"
    /\ fu_pc' = "top"
    /\ users' = <<>>
    /\ page' = 1
    /\ total_count' = 0
    /\ requested' = <<>>

FetchUsersStart ==
    /\ FetchUsersBegin
    /\ UNCHANGED <<now, limiter_vars, admissions, window_gets, quota_vars, mr_vars, fr_vars, server_vars, pure_vars, main_vars>>

\* lines 107-115: the loop body up to the call of make_request
FetchUsersRequest ==
    /\ fu_pc = "top"
    /\ EnterMakeRequest(Request("search", page, 0))
    /\ requested' = Append(requested, page)
    /\ fu_pc' = "waiting"
    /\ UNCHANGED <<quota_vars, admissions, window_gets, users, page, total_count, fr_vars, server_vars, pure_vars, main_vars>>

\* Line 125 without the cap: total_count = data.get("total_count", 0).
FetchUsersPage_UncappedTotal ==
    /\ fu_pc = "waiting"
    /\ mr_pc = "returned"
    /\ IF retval.items = <<>>
       THEN /\ fu_pc' = "done"
            /\ UNCHANGED <<users, page, total_count>>
       ELSE /\ users' = users \o retval.items
            /\ total_count' = IF page = 1
                              THEN DictGet(retval.total_count, 0)
                              ELSE total_count
            /\ IF Len(retval.items) < per_page \/ Len(users') >= total_count'
               THEN fu_pc' = "done" /\ page' = page
               ELSE fu_pc' = "top" /\ page' = page + 1
    /\ UNCHANGED <<now, limiter_vars, admissions, window_gets, quota_vars, mr_vars, requested, fr_vars,
                   server_vars, pure_vars, main_vars>>

\* The stop test of line 129 with > in place of >=.
FetchUsersPage_StrictStop ==
    /\ fu_pc = "waiting"
    /\ mr_pc = "returned"
    /\ IF retval.items = <<>>
       THEN /\ fu_pc' = "done"
            /\ UNCHANGED <<users, page, total_count>>
       ELSE /\ users' = users \o retval.items
            /\ total_count' = IF page = 1
                              THEN Min(DictGet(retval.total_count, 0), SearchCap)
                              ELSE total_count
            /\ IF Len(retval.items) < per_page \/ Len(users') > total_count'
               THEN fu_pc' = "done" /\ page' = page
               ELSE fu_pc' = "top" /\ page' = page + 1
    /\ UNCHANGED <<now, limiter_vars, admissions, window_gets, quota_vars, mr_vars, requested, fr_vars,
                   server_vars, pure_vars, main_vars>>

\* lines 117-132: make_request returned `data`
FetchUsersPage ==
    /\ fu_pc = "waiting"
    /\ mr_pc = "returned"
    /\ IF retval.items = <<>>
       THEN /\ fu_pc' = "done"
            /\ UNCHANGED <<users, page, total_count>>
       ELSE /\ users' = users \o retval.items
            /\ total_count' = IF page = 1
                              THEN Min(DictGet(retval.total_count, 0), SearchCap)
                              ELSE total_count
            /\ IF Len(retval.items) < per_page \/ Len(users') >= total_count'
               THEN fu_pc' = "done" /\ page' = page
               ELSE fu_pc' = "top" /\ page' = page + 1
    /\ UNCHANGED <<now, limiter_vars, admissions, window_gets, quota_vars, mr_vars, requested, fr_vars,
                   server_vars, pure_vars, main_vars>>

\* line 115: make_request raised; nothing in fetch_users catches it
FetchUsersRaised ==
    /\ fu_pc = "waiting"
    /\ mr_pc = "raised"
    /\ fu_pc' = "raised"
    /\ UNCHANGED <<now, limiter_vars, admissions, window_gets, quota_vars, mr_vars, users, page, total_count,
                   requested, fr_vars, server_vars, pure_vars, main_vars>>

(***************************************************************************)
(* fetch_repositories                                                      *)
(***************************************************************************)
\* lines 175-189: the record built from one repository of the page
repo_data(u, repo) == [login |-> u, full_name |-> repo]

\* lines 158-159, called with username u
FetchReposBegin(u) ==
    /\ fr_pc = "idle"
    /\ fr_pc' = "top"
    /\ repos' = <<>>
    /\ repo_page' = 1
    /\ username' = u
    /\ requested' = <<>>

FetchReposStart(u) ==
    /\ FetchReposBegin(u)
    /\ UNCHANGED <<now, limiter_vars, admissions, window_gets, quota_vars, mr_vars, fu_vars, server_vars, pure_vars, main_vars>>

\* lines 161-170: the loop body up to the call of make_request
FetchReposRequest ==
    /\ fr_pc = "top"
    /\ repo_page <= MaxRepoPages
    /\ EnterMakeRequest(Request("repos", repo_page, username))
    /\ requested' = Append(requested, repo_page)
    /\ fr_pc' = "waiting"
    /\ UNCHANGED <<quota_vars, admissions, window_gets, repos, repo_page, username, fu_vars, server_vars, pure_vars, main_vars>>

\* line 161 is false: line 196 returns repos
FetchReposLoopExit ==
    /\ fr_pc = "top"
    /\ repo_page > MaxRepoPages
    /\ fr_pc' = "done"
    /\ UNCHANGED <<now, limiter_vars, admissions, window_gets, quota_vars, mr_vars, requested, repos,
                   repo_page, username, fu_vars, server_vars, pure_vars, main_vars>>

\* The short-page test of line 191 with <= in place of <.
FetchReposPage_StopsOnFullPage ==
    /\ fr_pc = "waiting"
    /\ mr_pc = "returned"
    /\ IF retval.items = <<>>
       THEN /\ fr_pc' = "done"
            /\ UNCHANGED <<repos, repo_page>>
       ELSE /\ repos' = repos \o [i \in 1..Len(retval.items) |->
                                      repo_data(username, retval.items[i])]
            /\ IF Len(retval.items) <= per_page
               THEN fr_pc' = "done" /\ repo_page' = repo_page
               ELSE fr_pc' = "top" /\ repo_page' = repo_page + 1
    /\ UNCHANGED <<now, limiter_vars, admissions, window_gets, quota_vars, mr_vars, requested, username,
                   fu_vars, server_vars, pure_vars, main_vars>>

\* lines 172-194: make_request returned `data`
FetchReposPage ==
    /\ fr_pc = "waiting"
    /\ mr_pc = "returned"
    /\ IF retval.items = <<>>
       THEN /\ fr_pc' = "done"
            /\ UNCHANGED <<repos, repo_page>>
       ELSE /\ repos' = repos \o [i \in 1..Len(retval.items) |->
                                      repo_data(username, retval.items[i])]
            /\ IF Len(retval.items) < per_page
               THEN fr_pc' = "done" /\ repo_page' = repo_page
               ELSE fr_pc' = "top" /\ repo_page' = repo_page + 1
    /\ UNCHANGED <<now, limiter_vars, admissions, window_gets, quota_vars, mr_vars, requested, username,
                   fu_vars, server_vars, pure_vars, main_vars>>

\* line 170: make_request raised; nothing in fetch_repositories catches it
FetchReposRaised ==
    /\ fr_pc = "waiting"
    /\ mr_pc = "raised"
    /\ fr_pc' = "raised"
    /\ UNCHANGED <<now, limiter_vars, admissions, window_gets, quota_vars, mr_vars, requested, repos,
                   repo_page, username, fu_vars, server_vars, pure_vars, main_vars>>

(***************************************************************************)
(* fetch_user_details and main                                             *)
(***************************************************************************)
\* lines 142-154: the record built from the user object `user_data`
user_details(user_data) == [login |-> DictGet(user_data.login, EmptyLogin)]

\* line 288: main calls fetch_users
MainStart ==
    /\ main_pc = "start"
    /\ FetchUsersBegin
    /\ main_pc' = "fetch_users"
    /\ UNCHANGED <<now, limiter_vars, admissions, window_gets, quota_vars, mr_vars, fr_vars, server_vars, pure_vars,
                   idx, users_data, repos_data, saved, detail_calls, repo_calls,
                   ok_users, ok_repos>>

\* lines 312-314: fetch_users raised; main logs and re-raises
MainUsersFailed ==
    /\ main_pc = "fetch_users"
    /\ fu_pc = "raised"
    /\ main_pc' = "failed"
    /\ UNCHANGED <<now, limiter_vars, admissions, window_gets, quota_vars, mr_vars, requested, fu_vars,
                   fr_vars, server_vars, pure_vars, idx, users_data, repos_data, saved, detail_calls,
                   repo_calls, ok_users, ok_repos>>

\* lines 288-291: fetch_users returned
MainUsersFetched ==
    /\ main_pc = "fetch_users"
    /\ fu_pc = "done"
    /\ main_pc' = "details"
    /\ idx' = 1
    /\ users_data' = <<>>
    /\ UNCHANGED <<now, limiter_vars, admissions, window_gets, quota_vars, mr_vars, requested, fu_vars,
                   fr_vars, server_vars, pure_vars, repos_data, saved, detail_calls, repo_calls,
                   ok_users, ok_repos>>

\* lines 292-294 and 138-139: fetch_user_details(user['login']) calls make_request
MainDetailsCall ==
    /\ main_pc = "details"
    /\ idx <= Len(users)
    /\ EnterMakeRequest(Request("user", 0, users[idx]))
    /\ detail_calls' = Append(detail_calls, users[idx])
    /\ main_pc' = "details_wait"
    /\ UNCHANGED <<quota_vars, admissions, window_gets, requested, fu_vars, fr_vars, server_vars, pure_vars,
                   idx, users_data, repos_data, saved, repo_calls, ok_users, ok_repos>>

\* lines 142-154 and 295: make_request returned; the record is appended
MainDetailsReturn ==
    /\ main_pc = "details_wait"
    /\ mr_pc = "returned"
    /\ users_data' = Append(users_data, user_details(retval))
    /\ ok_users' = IF ret_from_response
                   THEN Append(ok_users, user_details(retval))
                   ELSE ok_users
    /\ idx' = idx + 1
    /\ main_pc' = "details"
    /\ UNCHANGED <<now, limiter_vars, admissions, window_gets, quota_vars, mr_vars, requested, fu_vars,
                   fr_vars, server_vars, pure_vars, repos_data, saved, detail_calls, repo_calls,
                   ok_repos>>

\* lines 296-298: make_request raised; main logs and goes on with the next user
MainDetailsRaised ==
    /\ main_pc = "details_wait"
    /\ mr_pc = "raised"
    /\ idx' = idx + 1
    /\ main_pc' = "details"
    /\ UNCHANGED <<now, limiter_vars, admissions, window_gets, quota_vars, mr_vars, requested, fu_vars,
                   fr_vars, server_vars, pure_vars, users_data, repos_data, saved, detail_calls,
                   repo_calls, ok_users, ok_repos>>

\* lines 292 and 300: the first loop is over
MainDetailsDone ==
    /\ main_pc = "details"
    /\ idx > Len(users)
    /\ main_pc' = "repos"
    /\ idx' = 1
    /\ repos_data' = <<>>
    /\ UNCHANGED <<now, limiter_vars, admissions, window_gets, quota_vars, mr_vars, requested, fu_vars,
                   fr_vars, server_vars, pure_vars, users_data, saved, detail_calls, repo_calls,
                   ok_users, ok_repos>>

\* lines 301-303: main calls fetch_repositories(user['login'])
MainReposCall ==
    /\ main_pc = "repos"
    /\ idx <= Len(users_data)
    /\ FetchReposBegin(users_data[idx].login)
    /\ repo_calls' = Append(repo_calls, users_data[idx].login)
    /\ main_pc' = "repos_wait"
    /\ UNCHANGED <<now, limiter_vars, admissions, window_gets, quota_vars, mr_vars, fu_vars, server_vars, pure_vars,
                   idx, users_data, repos_data, saved, detail_calls, ok_users, ok_repos>>

\* line 304: fetch_repositories returned; its records are added
MainReposReturn ==
    /\ main_pc = "repos_wait"
    /\ fr_pc = "done"
    /\ repos_data' = repos_data \o repos
    /\ ok_repos' = IF ret_from_response THEN ok_repos \o repos ELSE ok_repos
    /\ idx' = idx + 1
    /\ fr_pc' = "idle"
    /\ main_pc' = "repos"
    /\ UNCHANGED <<now, limiter_vars, admissions, window_gets, quota_vars, mr_vars, requested, fu_vars,
                   repos, repo_page, username, server_vars, pure_vars, users_data, saved,
                   detail_calls, repo_calls, ok_users>>

\* lines 305-307: fetch_repositories raised; main logs and goes on
MainReposRaised ==
    /\ main_pc = "repos_wait"
    /\ fr_pc = "raised"
    /\ idx' = idx + 1
    /\ fr_pc' = "idle"
    /\ main_pc' = "repos"
    /\ UNCHANGED <<now, limiter_vars, admissions, window_gets, quota_vars, mr_vars, requested, fu_vars,
                   repos, repo_page, username, server_vars, pure_vars, users_data, repos_data, saved,
                   detail_calls, repo_calls, ok_users, ok_repos>>

\* lines 301 and 309: the second loop is over; save_data is called
MainSave ==
    /\ main_pc = "repos"
    /\ idx > Len(users_data)
    /\ saved' = [called |-> TRUE, users |-> users_data, repos |-> repos_data]
    /\ main_pc' = "saved"
    /\ UNCHANGED <<now, limiter_vars, admissions, window_gets, quota_vars, mr_vars, requested, fu_vars,
                   fr_vars, server_vars, pure_vars, idx, users_data, repos_data, detail_calls,
                   repo_calls, ok_users, ok_repos>>

(***************************************************************************)
(* SpecSearch: fetch_users against a server that holds server_total        *)
(* matching users and answers every GET with the page asked for.           *)
(***************************************************************************)
InitSearch ==
    /\ InitScraper
    /\ NoCanon
    /\ NoNorm
    /\ NoAnalysis
    /\ main_pc = "none"
    /\ server_total \in 0..MaxTotal
    /\ server_repos = <<>>

NextSearch ==
    \/ FetchUsersStart
    \/ FetchUsersRequest
    \/ Success
    \/ FetchUsersPage

SpecSearch == InitSearch /\ [][NextSearch]_vars

CeilDiv(a, b) == (a + b - 1) \div b

\* C7: against a server that holds T >= 1 matching users and serves them in
\* pages of per_page, fetch_users returns exactly the first min(T, SearchCap)
\* users and issues exactly ceil(min(T, SearchCap) / per_page) page requests,
\* for the pages 1, 2, ... in order.
C7_SearchStopRule ==
    (fu_pc = "done" /\ server_total >= 1) =>
        /\ Len(users) = Min(server_total, SearchCap)
        /\ \A i \in 1..Len(users) : users[i] = i
        /\ Len(requested) = CeilDiv(Min(server_total, SearchCap), per_page)
        /\ \A i \in 1..Len(requested) : requested[i] = i
        /\ ncalls = Len(requested)

\* C7 witness: 250 matching users fetched with 3 page requests.
C7_Witness ==
    /\ fu_pc = "done"
    /\ server_total = 250
    /\ Len(users) = 250
    /\ requested = <<1, 2, 3>>

(***************************************************************************)
(* SpecEnum: one enumeration, fetch_users() or fetch_repositories(1),      *)
(* against a server that holds the records and may answer each GET in any  *)
(* way: with the page asked for, a 202, a 403, an error status, a timeout. *)
(***************************************************************************)
EnumTotals == {k * per_page + r : k \in 0..MaxEnumPages, r \in {0, 1}}

EnumRepoTotals == EnumTotals \cup {MaxRepoPages * per_page + r : r \in {0, 1}}

InitEnum ==
    /\ InitScraper
    /\ NoCanon
    /\ NoNorm
    /\ NoAnalysis
    /\ main_pc = "none"
    /\ \/ server_total \in EnumTotals /\ server_repos = <<0>>
       \/ server_total = 0 /\ server_repos \in {<<n>> : n \in EnumRepoTotals}

EnumUsers ==
    /\ fr_pc = "idle"
    /\ FetchUsersStart

EnumRepos ==
    /\ fu_pc = "idle"
    /\ FetchReposStart(1)

NextEnum ==
    \/ EnumUsers
    \/ FetchUsersRequest
    \/ FetchUsersPage
    \/ FetchUsersRaised
    \/ EnumRepos
    \/ FetchReposRequest
    \/ FetchReposLoopExit
    \/ FetchReposPage
    \/ FetchReposRaised
    \/ Success
    \/ RateLimited
    \/ Accepted
    \/ HttpError
    \/ Timeout
    \/ TransportError

SpecEnum == InitEnum /\ [][NextEnum]_vars

\* The last page request of the enumeration failed: make_request did not
\* hand back the body of a response.
PageRequestFailed == mr_pc = "raised" \/ (mr_pc = "returned" /\ ~ret_from_response)

\* C8: when a page request of an enumeration fails, also by exhausted
\* retries, the enumeration ends with the error and requests no further page;
\* it never ends normally, with a short result, after a failed page request.
C8_FailurePropagates ==
    /\ (fu_pc = "done" \/ fr_pc = "done") => ~PageRequestFailed
    /\ (PageRequestFailed /\ fu_pc # "idle") => fu_pc \in {"waiting", "raised"}
    /\ (PageRequestFailed /\ fr_pc # "idle") => fr_pc \in {"waiting", "raised"}

(***************************************************************************)
(* SpecMain: main against a server that holds server_total <= MaxUsers     *)
(* users, each with at most MaxRepos repositories, and may answer each GET *)
(* in any way.                                                             *)
(***************************************************************************)
InitMain ==
    /\ InitScraper
    /\ NoCanon
    /\ NoNorm
    /\ NoAnalysis
    /\ main_pc = "start"
    /\ server_total \in 0..MaxUsers
    /\ server_repos \in [1..server_total -> 0..MaxRepos]

NextMain ==
    \/ MainStart
    \/ MainUsersFailed
    \/ MainUsersFetched
    \/ MainDetailsCall
    \/ MainDetailsReturn
    \/ MainDetailsRaised
    \/ MainDetailsDone
    \/ MainReposCall
    \/ MainReposReturn
    \/ MainReposRaised
    \/ MainSave
    \/ FetchUsersRequest
    \/ FetchUsersPage
    \/ FetchUsersRaised
    \/ FetchReposRequest
    \/ FetchReposPage
    \/ FetchReposRaised
    \/ Success
    \/ RateLimited
    \/ Accepted
    \/ HttpError
    \/ Timeout
    \/ TransportError

SpecMain == InitMain /\ [][NextMain]_vars

\* C9: a failure while fetching the details or the repositories of one user
\* never aborts the batch (main fails only when fetch_users itself raised);
\* once save_data is called every discovered user has been processed in
\* order, and save_data receives exactly the records of the users whose
\* fetches succeeded.
C9_BatchKeepsSuccessfulSubset ==
    /\ main_pc = "failed" => fu_pc = "raised"
    /\ saved.called =>
          /\ detail_calls = users
          /\ repo_calls = [i \in 1..Len(users_data) |-> users_data[i].login]
          /\ saved.users = ok_users
          /\ saved.repos = ok_repos

\* C20: every record of users_data was built from a success response for a
\* discovered user, so its login is the login of a user fetch_users
\* returned, and fetch_repositories is called only with such a login, never
\* with the empty one.
C20_RecordsOfDiscoveredUsers ==
    LET discovered == {users[j] : j \in 1..Len(users)}
    IN /\ users_data = ok_users
       /\ \A i \in 1..Len(users_data) : users_data[i].login \in discovered
       /\ \A i \in 1..Len(repo_calls) :
             repo_calls[i] \in discovered /\ repo_calls[i] # EmptyLogin

(***************************************************************************)
(* SpecAnyServer: one enumeration, fetch_users() or fetch_repositories(1), *)
(* against a server whose success responses carry any page (empty, short,  *)
(* full or longer than per_page) with any total_count, and whose GETs may  *)
(* also time out or fail in transport, so that a make_request call ends in *)
(* each of its three ways: it returns a body, returns {} or raises.        *)
(***************************************************************************)
AnyPageLengths == {0, 1, per_page, per_page + 1}

AnyTotals == {Absent, 0, per_page + 1, SearchCap, SearchCap + per_page}

AnyBodies(r) ==
    IF r.endpoint = "search"
    THEN {[type |-> "dict", items |-> [i \in 1..n |-> 1], total_count |-> t, login |-> Absent] :
             n \in AnyPageLengths, t \in AnyTotals}
    ELSE {[type |-> "list", items |-> [i \in 1..n |-> <<r.username, i>>],
           total_count |-> Absent, login |-> Absent] : n \in AnyPageLengths}

AnySuccess == \E b \in AnyBodies(req) :
    RespSuccess([remaining |-> Absent, reset |-> Absent], b)

NextAnyServer ==
    \/ EnumUsers
    \/ FetchUsersRequest
    \/ FetchUsersPage
    \/ FetchUsersRaised
    \/ EnumRepos
    \/ FetchReposRequest
    \/ FetchReposLoopExit
    \/ FetchReposPage
    \/ FetchReposRaised
    \/ AnySuccess
    \/ Timeout
    \/ TransportError

SpecAnyServer == Init /\ [][NextAnyServer]_vars

\* C15: fetch_repositories requests the pages 1, 2, ... in order, at most
\* MaxRepoPages of them, and returns at most the records of MaxRepoPages
\* pages; it goes on to the next page only after a full page, and it returns
\* only after an empty page, a page shorter than per_page, or the page
\* request number MaxRepoPages - never earlier while full pages arrive.
C15_ListStopRule ==
    fr_pc # "idle" =>
        /\ Len(requested) <= MaxRepoPages
        /\ \A i \in 1..Len(requested) : requested[i] = i
        /\ Len(repos) <= MaxRepoPages * (per_page + 1)
        /\ fr_pc = "top" => /\ repo_page = Len(requested) + 1
                            /\ repo_page > 1 => Len(retval.items) >= per_page
        /\ fr_pc = "done" =>
              \/ retval.items = <<>>
              \/ Len(retval.items) < per_page
              \/ Len(requested) = MaxRepoPages

\* C15 witness: five full pages arrived and the enumeration stopped at the
\* ceiling.
C15_Witness ==
    /\ fr_pc = "done"
    /\ requested = <<1, 2, 3, 4, 5>>
    /\ Len(retval.items) = per_page
    /\ Len(repos) = MaxRepoPages * per_page

\* The page requests that reach the search cap when every page is full.
MaxSearchPages == CeilDiv(SearchCap, per_page)

\* C19: whatever total_count and pages the server reports, fetch_users
\* requests the pages 1, 2, ..., n in order with no gap or repeat, n is at
\* most 10, and it is over once the 10th page request has been answered: it
\* is at the top of its loop only with fewer than 10 pages requested.
C19_SearchTerminates ==
    fu_pc # "idle" =>
        /\ MaxSearchPages = 10
        /\ Len(requested) <= MaxSearchPages
        /\ \A i \in 1..Len(requested) : requested[i] = i
        /\ fu_pc = "top" => (page = Len(requested) + 1 /\ page <= MaxSearchPages)
        /\ fu_pc \in {"waiting", "done", "raised"} => page = Len(requested)

\* C19 witness: total_count above the cap and ten full pages, after which
\* fetch_users returned.
C19_Witness ==
    /\ fu_pc = "done"
    /\ Len(requested) = 10
    /\ total_count = SearchCap
    /\ retval.total_count > SearchCap
    /\ Len(users) = SearchCap

(***************************************************************************)
(* SpecMainPages: main against a server that holds one user whose          *)
(* repository list fills more than one page, and may answer each GET in    *)
(* any way.                                                                *)
(***************************************************************************)
InitMainPages ==
    /\ InitScraper
    /\ NoCanon
    /\ NoNorm
    /\ NoAnalysis
    /\ main_pc = "start"
    /\ server_total = 1
    /\ server_repos \in {<<n>> : n \in {per_page, per_page + 1}}

SpecMainPages == InitMainPages /\ [][NextMain]_vars

\* C14: when fetch_repositories fails on a page request after earlier pages
\* succeeded, the records it had accumulated from those pages reach its
\* caller: once main has handled the failure (lines 305-307), they are in
\* repos_data.
C14_AbortKeepsAccumulatedRecords ==
    [][ (main_pc = "repos_wait" /\ fr_pc = "raised" /\ main_pc' = "repos") =>
            \A i \in 1..Len(repos) :
                \E j \in 1..Len(repos_data') : repos_data'[j] = repos[i] ]_vars

(***************************************************************************)
(* SpecCanon: clean_company_name applied to an input, then to its own      *)
(* result.  The inputs are None, "@Acme.com", "https://WWW.Foo.io" and     *)
(* every string of at most MaxLen characters over CanonAlphabet.           *)
(***************************************************************************)
CanonAlphabet == {"@", " ", ".", "c", "O", "w"}

AcmeCom == <<"@", "A", "c", "m", "e", ".", "c", "o", "m">>
FooIo == <<"h", "t", "t", "p", "s", ":", "/", "/", "W", "W", "W", ".", "F", "o", "o", ".", "i", "o">>

CompanyInputs ==
    {NoneStr, Str(AcmeCom), Str(FooIo)}
        \cup {Str(t) : t \in UNION {[1..n -> CanonAlphabet] : n \in 0..MaxLen}}

InitCanon ==
    /\ InitScraper
    /\ main_pc = "none"
    /\ server_total = 0
    /\ server_repos = <<>>
    /\ NoNorm
    /\ NoAnalysis
    /\ canon_pc = "input"
    /\ company \in CompanyInputs
    /\ cleaned = <<>>
    /\ recleaned = <<>>

canon_frame == <<now, limiter_vars, admissions, window_gets, quota_vars, mr_vars, requested, fu_vars,
                 fr_vars, server_vars, main_vars, norm_vars, analysis_vars>>

Clean ==
    /\ canon_pc = "input"
    /\ cleaned' = clean_company_name(company)
    /\ canon_pc' = "cleaned"
    /\ UNCHANGED <<company, recleaned, canon_frame>>

CleanAgain ==
    /\ canon_pc = "cleaned"
    /\ recleaned' = clean_company_name(Str(cleaned))
    /\ canon_pc' = "recleaned"
    /\ UNCHANGED <<company, cleaned, canon_frame>>

NextCanon ==
    \/ Clean
    \/ CleanAgain

SpecCanon == InitCanon /\ [][NextCanon]_vars

\* C10: clean_company_name is total and idempotent: None and "" give "",
\* "@Acme.com" gives "ACME", "https://WWW.Foo.io" gives "FOO", and cleaning a
\* cleaned name again changes nothing.
C10_CanonIdempotentTotal ==
    /\ canon_pc \in {"cleaned", "recleaned"} =>
          /\ (company.none \/ company.text = <<>>) => cleaned = <<>>
          /\ company = Str(AcmeCom) => cleaned = <<"A", "C", "M", "E">>
          /\ company = Str(FooIo) => cleaned = <<"F", "O", "O">>
    /\ canon_pc = "recleaned" => recleaned = cleaned

(***************************************************************************)
(* SpecNormalize: the record of fetch_user_details or fetch_repositories   *)
(* built from one raw JSON object.  Every key of the raw object holds a    *)
(* value of the type the API documents, or null, or is missing; at most    *)
(* MaxMissing keys are null or missing.                                    *)
(***************************************************************************)
\* The value the API serves under key f when it serves one.
Present(f) ==
    CASE DeclaredType(f) = "bool" -> PyBool(TRUE)
      [] DeclaredType(f) = "int" -> PyInt(5)
      [] f = "company" -> PyStr(AcmeCom)
      [] f = "license" -> PyDict
      [] OTHER -> PyStr(<<"x">>)

RawChoices(fields) ==
    {c \in [fields -> {"present", "null", "missing"}] :
        /\ Cardinality({f \in fields : c[f] # "present"}) <= MaxMissing
        /\ ("license" \in fields /\ c["license"] # "present") => c["license.key"] = "missing"}

RawRecords(fields) ==
    {[f \in fields |-> CASE c[f] = "present" -> Present(f)
                          [] c[f] = "null" -> PyNone
                          [] c[f] = "missing" -> Missing] : c \in RawChoices(fields)}

InitNormalize ==
    /\ InitScraper
    /\ NoCanon
    /\ main_pc = "none"
    /\ server_total = 0
    /\ server_repos = <<>>
    /\ NoAnalysis
    /\ norm_pc = "input"
    /\ \/ raw \in {[of |-> "user", fields |-> r] : r \in RawRecords(UserFields)}
       \/ raw \in {[of |-> "repo", fields |-> r] : r \in RawRecords(RawRepoFields)}
    /\ normalized = [raised |-> FALSE, fields |-> <<>>]

norm_frame == <<now, limiter_vars, admissions, window_gets, quota_vars, mr_vars, requested, fu_vars,
                fr_vars, server_vars, main_vars, canon_vars, analysis_vars>>

\* lines 142-154 applied to the user object make_request returned
BuildUserRecord ==
    /\ norm_pc = "input"
    /\ raw.of = "user"
    /\ normalized' = Built(NormalizeUser(raw.fields))
    /\ norm_pc' = "done"
    /\ UNCHANGED <<raw, norm_frame>>

\* lines 177-188 applied to one repository object of the page
BuildRepoRecord ==
    /\ norm_pc = "input"
    /\ raw.of = "repo"
    /\ normalized' = Built(NormalizeRepo(PyStr(<<"u">>), raw.fields))
    /\ norm_pc' = "done"
    /\ UNCHANGED <<raw, norm_frame>>

NextNormalize ==
    \/ BuildUserRecord
    \/ BuildRepoRecord

SpecNormalize == InitNormalize /\ [][NextNormalize]_vars

\* C11: building the record never fails, and every field of the record built
\* holds a value of its declared type (str, int, bool), never None, also when
\* the raw object lacks the key or carries null for it.
C11_FieldsTypedNeverNull ==
    norm_pc = "done" =>
        /\ ~normalized.raised
        /\ \A f \in DOMAIN normalized.fields :
              normalized.fields[f].kind = DeclaredType(f)

(***************************************************************************)
(* SpecAnalyze: analyze_data applied to the records main collected: at     *)
(* most MaxAnalysisUsers user records and MaxAnalysisRepos repository      *)
(* records of users 1 and 2, with 0..MaxStars stars each and a language    *)
(* that is None, "" or "Python".  Record i has full name i.                *)
(***************************************************************************)
Python == <<"P", "y", "t", "h", "o", "n">>

AnalysisLanguages == {PyNone, PyStr(<<>>), PyStr(Python)}

AnalysisUserRecords == {[hireable |-> PyBool(b)] : b \in BOOLEAN}

\* owner, stars and language of a repository record
AnalysisRepoAttributes == (1..2) \X (0..MaxStars) \X AnalysisLanguages

\* The repository records with the attributes a[1], a[2], ...
AnalysisRepoRecords(a) ==
    [i \in 1..Len(a) |-> [login |-> a[i][1], full_name |-> i,
                          stargazers_count |-> a[i][2], language |-> a[i][3]]]

InitAnalyze ==
    /\ InitScraper
    /\ NoCanon
    /\ NoNorm
    /\ main_pc = "none"
    /\ server_total = 0
    /\ server_repos = <<>>
    /\ analysis_pc = "input"
    /\ \E n \in 0..MaxAnalysisUsers : analysis_users \in [1..n -> AnalysisUserRecords]
    /\ \E n \in 0..MaxAnalysisRepos : \E a \in [1..n -> AnalysisRepoAttributes] :
          analysis_repos = AnalysisRepoRecords(a)
    /\ analysis = analyze_data(<<>>, <<>>)

analysis_frame == <<now, limiter_vars, admissions, window_gets, quota_vars, mr_vars, requested, fu_vars,
                    fr_vars, server_vars, main_vars, canon_vars, norm_vars>>

\* line 236: analysis_results = self.analyze_data(users_data, repos_data)
Analyze ==
    /\ analysis_pc = "input"
    /\ analysis' = analyze_data(analysis_users, analysis_repos)
    /\ analysis_pc' = "done"
    /\ UNCHANGED <<analysis_users, analysis_repos, analysis_frame>>

NextAnalyze ==
    \/ Analyze

SpecAnalyze == InitAnalyze /\ [][NextAnalyze]_vars

MaxStarsOf(repos_arg) ==
    CHOOSE m \in {repos_arg[i].stargazers_count : i \in 1..Len(repos_arg)} :
        \A i \in 1..Len(repos_arg) : repos_arg[i].stargazers_count <= m

EarliestWithStars(repos_arg, m) ==
    CHOOSE i \in 1..Len(repos_arg) :
        /\ repos_arg[i].stargazers_count = m
        /\ \A j \in 1..(i - 1) : repos_arg[j].stargazers_count # m

\* C12: for every non-empty sequence of repository records most_starred_repo
\* is the full name of the earliest record whose stargazers_count is the
\* maximum of the sequence, whatever that maximum is, 0 included.
C12_MostStarredIsEarliestMax ==
    (analysis_pc = "done" /\ analysis_repos # <<>>) =>
        analysis.most_starred_repo =
            analysis_repos[EarliestWithStars(analysis_repos, MaxStarsOf(analysis_repos))].full_name

\* C13: on empty inputs analyze_data returns average 0, an empty language
\* distribution and zero counts; on any input the repositories whose
\* language is empty or None are counted under 'Unknown' (and under no other
\* bucket), and the bucket counts sum to the number of repository records.
C13_EmptyAndUnknownBucket ==
    analysis_pc = "done" =>
        LET unnamed == {i \in 1..Len(analysis_repos) : analysis_repos[i].language.text = <<>>}
        IN /\ (analysis_users = <<>> /\ analysis_repos = <<>>) =>
                 /\ analysis.avg_stars_per_repo.num = 0
                 /\ DOMAIN analysis.languages = {}
                 /\ analysis.total_users = 0
                 /\ analysis.total_repos = 0
                 /\ analysis.hireable_users = 0
           /\ <<>> \notin DOMAIN analysis.languages
           /\ unnamed # {} =>
                 /\ Unknown \in DOMAIN analysis.languages
                 /\ analysis.languages[Unknown] = Cardinality(unnamed)
           /\ unnamed = {} => Unknown \notin DOMAIN analysis.languages
           /\ SumOver(analysis.languages, DOMAIN analysis.languages) = Len(analysis_repos)

\* C13 witness: three repositories, one without a language and one with
\* language None, both counted under 'Unknown'.
C13_Witness ==
    /\ analysis_pc = "done"
    /\ Len(analysis_repos) = 3
    /\ analysis_repos[1].language = PyStr(<<>>)
    /\ analysis_repos[2].language = PyNone
    /\ analysis_repos[3].language = PyStr(Python)
    /\ analysis.languages[Unknown] = 2
    /\ analysis.languages[Python] = 1

(***************************************************************************)
(* Claims about make_request, checked under Spec.                          *)
(***************************************************************************)
Ended == mr_pc \in {"returned", "raised"}

AllOutcomes(kind) ==
    /\ Len(outcomes) > 0
    /\ \A i \in 1..Len(outcomes) : outcomes[i] = kind

LastOutcome(kind) == Len(outcomes) > 0 /\ outcomes[Len(outcomes)] = kind

\* C1: a call of make_request that has ended either raised an error or
\* returned the parsed body of a success response it actually received; it
\* never returns a value when the attempts are used up.
C1_ReturnsOnlyReceivedBody ==
    mr_pc = "returned" => ret_from_response

\* C2: when every attempt of a call timed out, the call made exactly
\* max_retries attempts and raised an error, and it slept base*2^k after the
\* timeout of attempt k only while attempts remained (1s, 2s).
C2_TimeoutsRaiseAfterBackoff ==
    (Ended /\ AllOutcomes("timeout")) =>
        /\ sent = max_retries
        /\ mr_pc = "raised"
        /\ sleeps = <<InitialWait, InitialWait * BackoffFactor>>

\* C3: a response with an error status other than the rate-limit 403 and 202
\* makes make_request fail at once with that status: no sleep and no further
\* attempt follows it.
C3_ErrorStatusFailsImmediately ==
    [][ (Len(outcomes') = Len(outcomes) + 1 /\ outcomes'[Len(outcomes')] = "httperror")
            => (mr_pc' = "raised" /\ exc'.type = "HTTPError" /\ sleeps' = sleeps) ]_vars

\* C4: a quota-exceeded 403 does not consume an attempt: after any number of
\* quota-exceeded responses make_request has waited and is about to retry.
C4_QuotaKeepsRetrying ==
    LastOutcome("quota") => mr_pc = "loop"

\* C5: polling is bounded by the attempt ceiling shared with the transport
\* errors: a call sends at most max_retries GETs whatever mix of 202s,
\* timeouts and errors it meets, it is over once max_retries GETs were sent,
\* and each 202 is followed by a sleep of AcceptedSleep seconds.
C5_AcceptedPollingBounded ==
    /\ sent = Len(outcomes)
    /\ sent <= max_retries
    /\ (sent = max_retries => Ended)
    /\ \A i \in 1..Len(outcomes) :
          outcomes[i] = "accepted" => (Len(sleeps) >= i /\ sleeps[i] = AcceptedSleep)

\* C5 witness: three 202 answers in a row, after which the call is over.
C5_Witness ==
    /\ outcomes = <<"accepted", "accepted", "accepted">>
    /\ Ended
    /\ sleeps = <<AcceptedSleep, AcceptedSleep, AcceptedSleep>>

\* C16: the quota state changes only when a response arrives that carries
\* quota headers, and then it takes the values of that response; every other
\* step leaves it as it was - a GET that timed out or failed in transport,
\* a response without the quota headers, and every step that is no GET.
C16_QuotaLastResponseWins ==
    [][ LET got == Len(outcomes') = Len(outcomes) + 1
            response == got /\ outcomes'[Len(outcomes')] \notin {"timeout", "connerror"}
            carries == last_headers'.remaining # Absent \/ last_headers'.reset # Absent
        IN IF response /\ carries
           THEN /\ rate_limit_remaining' = last_headers'.remaining
                /\ rate_limit_reset' = last_headers'.reset
           ELSE /\ rate_limit_remaining' = rate_limit_remaining
                /\ rate_limit_reset' = rate_limit_reset ]_vars

\* C18: whatever the server answers, a make_request call sends at most
\* max_retries (3) GETs, and a call that was started comes to an end: it
\* returns or raises.
C18_CallTerminates ==
    /\ [](sent <= max_retries)
    /\ (mr_pc = "loop") ~> Ended

\* C18 witness: a call that met a quota-exceeded 403, a timeout and an error
\* status, and ended after its third GET.
C18_Witness ==
    /\ outcomes = <<"quota", "timeout", "httperror">>
    /\ sent = max_retries
    /\ mr_pc = "raised"

====
